---- MODULE Spec2Model ----
(***************************************************************************)
(* landsat-pystac: the query builder (JsonConstructor), the search client  *)
(* (Search) and the result sequence (STACResult), as state machines.       *)
(*                                                                         *)
(* Python values are tagged records [t, n, s] so that values of different  *)
(* Python types can be compared: t is the type, n the number (an int, a    *)
(* float in tenths, or the length of a list) and s the text of a string    *)
(* (or the label of a list).  A dict is a function from its keys.          *)
(***************************************************************************)
EXTENDS Integers, Sequences, FiniteSets, TLC

VARIABLES
    jc,     \* the JsonConstructor object (its attributes)
    ret,    \* what the last call returned (NoReturn when it returned nothing)
    last,   \* the last call made: its name, its argument, what it raised
    srch,   \* the Search object: json_handler, response
    net,    \* the HTTP exchange of the last search(): requests sent, response got
    res,    \* the STACResult object: features, _n and the aggregate lists
    trav    \* the traversal in progress: the items next() has returned

vars == <<jc, ret, last, srch, net, res, trav>>

-----------------------------------------------------------------------------
(* Python values *)

PyNone == [t |-> "none", n |-> 0, s |-> ""]
PyInt(k) == [t |-> "int", n |-> k, s |-> ""]
\* a float, held in tenths: PyFloat(505) is 50.5 and PyFloat(1000) is 100.0
PyFloat(k10) == [t |-> "float", n |-> k10, s |-> ""]
PyStr(x) == [t |-> "str", n |-> 0, s |-> x]
\* a list of k numbers, named by a label
PyList(k, x) == [t |-> "list", n |-> k, s |-> x]

EmptyDict == <<>>

\* bool(v) of a scalar or list value
Truthy(v) ==
    CASE v.t = "none" -> FALSE
      [] v.t = "int" -> v.n # 0
      [] v.t = "float" -> v.n # 0
      [] v.t = "str" -> v.s # ""
      [] v.t = "list" -> v.n # 0

\* bool(d) of a dict
DictTruthy(d) == DOMAIN d # {}

\* v == k for an int literal k (an int and a float of the same number are equal)
EqInt(v, k) ==
    \/ v.t = "int" /\ v.n = k
    \/ v.t = "float" /\ v.n = 10 * k

\* v < k for a number v and an int literal k
LtInt(v, k) == IF v.t = "float" THEN v.n < 10 * k ELSE v.n < k

\* v > k for a number v and an int literal k
GtInt(v, k) == IF v.t = "float" THEN v.n > 10 * k ELSE v.n > k

\* v in names, for a list of string literals
InStrList(v, names) == v.t = "str" /\ v.s \in names

-----------------------------------------------------------------------------
(* validators.py *)

NoError == "none"

\* check_if_string(val): the error raised, if any
check_if_string(val) == IF val.t = "str" THEN NoError ELSE "TypeError"

\* check_if_int(val): the error raised, if any
check_if_int(val) == IF val.t = "int" THEN NoError ELSE "TypeError"

-----------------------------------------------------------------------------
(* str.zfill and str(int) *)

RECURSIVE Zeros(_)
Zeros(k) == IF k <= 0 THEN "" ELSE "0" \o Zeros(k - 1)

\* str.zfill(width): zeros go after a leading sign
zfill(s, width) ==
    IF Len(s) >= width THEN s
    ELSE IF Len(s) > 0 /\ SubSeq(s, 1, 1) \in {"+", "-"}
         THEN SubSeq(s, 1, 1) \o Zeros(width - Len(s)) \o SubSeq(s, 2, Len(s))
         ELSE Zeros(width - Len(s)) \o s

Digit(d) == SubSeq("0123456789", d + 1, d + 1)

RECURSIVE StrOfNat(_)
StrOfNat(x) == IF x < 10 THEN Digit(x) ELSE StrOfNat(x \div 10) \o Digit(x % 10)

-----------------------------------------------------------------------------
(* JsonConstructor *)

DefaultLimit == 10
ZfillWidth == 3
WrsPathStop == 255
WrsRowStop == 248
NoFilter == 100
CloudCoverMin == 0
CloudCoverTop == 100

Result(self, raised) == [self |-> self, raised |-> raised]

\* scene_id setter
scene_id(self, val) ==
    Result([self EXCEPT !._scene_id = val,
                        !.params = ("landsat:scene_id" :> ("eq" :> val)) @@ @],
           NoError)

\* __init__(limit)
JsonConstructor(limit) ==
    scene_id([params |-> EmptyDict,
              _limit |-> limit,
              _date_range |-> PyNone,
              _wrs_path |-> PyNone,
              _wrs_row |-> PyNone,
              _cloud_cover_max |-> PyNone,
              _cloud_cover_land_max |-> PyNone,
              _collection |-> PyNone,
              _platform |-> PyNone,
              _manual_json_params |-> EmptyDict,
              _bbox |-> PyNone,
              _correction |-> PyNone,
              _sort_col |-> PyNone,
              _sort_order |-> PyNone,
              _id |-> PyNone,
              _scene_id |-> PyNone], PyNone).self

\* the attributes __init__ creates: there is no self.json
HasJsonAttr == FALSE

\* correction setter
correction(self, val) ==
    Result([self EXCEPT !._correction = val,
                        !.params = ("landsat:correction" :> ("eq" :> val)) @@ @],
           NoError)

\* date_range setter
date_range(self, val) == Result([self EXCEPT !._date_range = val], NoError)

\* bbox setter
bbox(self, val) == Result([self EXCEPT !._bbox = val], NoError)

ValidCollections == {"landsat-c1l1", "landsat-c2l1"}

\* collection setter
collection(self, val) ==
    IF ~InStrList(val, ValidCollections)
    THEN Result(self, "SearchError")
    ELSE Result([self EXCEPT !._collection = val], NoError)

\* sort_col setter
sort_col(self, val) == Result([self EXCEPT !._sort_col = val], NoError)

\* sort_order setter
sort_order(self, val) ==
    IF ~InStrList(val, {"desc", "asc"}) /\ val # PyNone
    THEN Result(self, "ValueError")
    ELSE Result([self EXCEPT !._sort_order = val], NoError)

ValidPlatforms ==
    {"LANDSAT_1", "LANDSAT_2", "LANDSAT_3", "LANDSAT_4", "LANDSAT_5",
     "LANDSAT_6", "LANDSAT-7", "LANDSAT_8", "LANDSAT_9"}

\* the platform setter, storing before it validates
platform_stores_first(self, val) ==
    Result([self EXCEPT !._platform = val,
                        !.params = ("platform" :> ("eq" :> val)) @@ @],
           IF ~InStrList(val, ValidPlatforms) THEN "SearchError" ELSE NoError)

\* platform setter
platform(self, val) ==
    IF ~InStrList(val, ValidPlatforms)
    THEN Result(self, "SearchError")
    ELSE Result([self EXCEPT !._platform = val,
                             !.params = ("platform" :> ("eq" :> val)) @@ @],
                NoError)

\* the cloud_cover_max setter, with 100 clearing the filter stored before
cloud_cover_max_sentinel_clears(self, val) ==
    IF ~EqInt(val, NoFilter)
    THEN IF check_if_int(val) # NoError
         THEN Result(self, check_if_int(val))
         ELSE IF LtInt(val, CloudCoverMin) \/ GtInt(val, CloudCoverTop)
              THEN Result(self, "ValueError")
              ELSE Result([self EXCEPT
                       !._cloud_cover_max = ("eo:cloud_cover" :> val),
                       !.params = ("eo:cloud_cover" :> ("lt" :> val)) @@ @],
                       NoError)
    ELSE Result([self EXCEPT
             !._cloud_cover_max = PyNone,
             !.params = [k \in DOMAIN @ \ {"eo:cloud_cover"} |-> @[k]]],
             NoError)

\* cloud_cover_max setter
cloud_cover_max(self, val) ==
    IF ~EqInt(val, NoFilter)
    THEN IF check_if_int(val) # NoError
         THEN Result(self, check_if_int(val))
         ELSE IF LtInt(val, CloudCoverMin) \/ GtInt(val, CloudCoverTop)
              THEN Result(self, "ValueError")
              ELSE Result([self EXCEPT
                       !._cloud_cover_max = ("eo:cloud_cover" :> val),
                       !.params = ("eo:cloud_cover" :> ("lt" :> val)) @@ @],
                       NoError)
    ELSE Result(self, NoError)

\* cloud_cover_land_max setter
cloud_cover_land_max(self, val) ==
    IF ~EqInt(val, NoFilter)
    THEN IF check_if_int(val) # NoError
         THEN Result(self, check_if_int(val))
         ELSE Result([self EXCEPT
                  !._cloud_cover_land_max = val,
                  !.params = ("landsat:cloud_cover_land" :> ("lt" :> val)) @@ @],
                  NoError)
    ELSE Result(self, NoError)

\* the valid values with the stop value included
ValidValsInclusive(stop) == {zfill(StrOfNat(x), ZfillWidth) : x \in 0..stop}

\* map(lambda x: str(x).zfill(3), range(0, stop))
ValidVals(stop) == {zfill(StrOfNat(x), ZfillWidth) : x \in 0..(stop - 1)}

ValidWrsPaths == ValidVals(WrsPathStop)
ValidWrsRows == ValidVals(WrsRowStop)

\* wrs_path setter
wrs_path(self, val) ==
    IF check_if_string(val) # NoError
    THEN Result(self, check_if_string(val))
    ELSE LET padded == zfill(val.s, ZfillWidth) IN
         IF padded \notin ValidWrsPaths
         THEN Result(self, "SearchError")
         ELSE Result([self EXCEPT
                  !._wrs_path = ("landsat:wrs_path" :> PyStr(padded)),
                  !.params = ("landsat:wrs_path" :> ("eq" :> PyStr(padded))) @@ @],
                  NoError)

\* wrs_row setter
wrs_row(self, val) ==
    IF check_if_string(val) # NoError
    THEN Result(self, check_if_string(val))
    ELSE LET padded == zfill(val.s, ZfillWidth) IN
         IF padded \notin ValidWrsRows
         THEN Result(self, "SearchError")
         ELSE Result([self EXCEPT
                  !._wrs_row = ("landsat:wrs_row" :> PyStr(padded)),
                  !.params = ("landsat:wrs_row" :> ("eq" :> PyStr(padded))) @@ @],
                  NoError)

\* set_metadata(metadata): the first entry's self.json[k] = v raises, as the
\* object has no attribute json; an empty mapping runs no iteration
set_metadata(self, metadata) ==
    IF DOMAIN metadata = {}
    THEN Result(self, NoError)
    ELSE IF ~HasJsonAttr
         THEN Result(self, "AttributeError")
         ELSE Result([self EXCEPT
                  !._manual_json_params = metadata @@ @],
                  NoError)

NoReturn == <<>>

\* list(v.values())[0] of a one-key dict
OnlyValue(v) == v[CHOOSE k \in DOMAIN v : TRUE]

\* the keys of params written into the query without the skip of {'eq': None}
ParamsEmitted_keeps_none(self) ==
    {k \in DOMAIN self.params : DictTruthy(self.params[k])}

\* the keys of params the loop of generate_json writes into the query
ParamsEmitted(self) ==
    {k \in DOMAIN self.params :
        /\ DictTruthy(self.params[k])
        /\ ~(Cardinality(DOMAIN self.params[k]) = 1
             /\ OnlyValue(self.params[k]) = PyNone)}

\* the keys of _manual_json_params the first loop writes into the query
ManualEmitted(self) ==
    {k \in DOMAIN self._manual_json_params :
        DictTruthy(self._manual_json_params[k])}

\* json_out as generate_json() builds it, step by step
json_out(self) ==
    LET base == "limit" :> self._limit
        withBbox == IF Truthy(self._bbox) THEN "bbox" :> self._bbox ELSE EmptyDict
        withTime == IF Truthy(self._date_range)
                    THEN "time" :> self._date_range ELSE EmptyDict
        \* the params loop runs second, so it overwrites the manual entries
        query == [k \in ManualEmitted(self) \cup ParamsEmitted(self) |->
                    IF k \in ParamsEmitted(self)
                    THEN self.params[k]
                    ELSE self._manual_json_params[k]]
        sortEntry == IF Truthy(self._sort_order)
                     THEN ("field" :> self._sort_col) @@
                          ("direction" :> self._sort_order)
                     ELSE "field" :> self._sort_col
        withSort == IF Truthy(self._sort_col)
                    THEN "sort" :> <<sortEntry>> ELSE EmptyDict
    IN  base @@ withBbox @@ withTime @@ ("query" :> query) @@ withSort

\* a params value with more than one key: 'Unexpected nested data.'
NestedData(self) ==
    \E k \in DOMAIN self.params : Cardinality(DOMAIN self.params[k]) > 1

\* generate_json() as a call that forgets the sort column once rendered
generate_json_consuming(self) ==
    IF NestedData(self)
    THEN [ret |-> NoReturn, raised |-> "RuntimeError", self |-> self]
    ELSE [ret |-> json_out(self), raised |-> NoError,
          self |-> [self EXCEPT !._sort_col = PyNone]]

\* generate_json(): the returned document, the error raised, and the object
\* after the call (no attribute is assigned)
generate_json(self) ==
    IF NestedData(self)
    THEN [ret |-> NoReturn, raised |-> "RuntimeError", self |-> self]
    ELSE [ret |-> json_out(self), raised |-> NoError, self |-> self]

-----------------------------------------------------------------------------
(* The calls a client makes on a JsonConstructor *)

CallRecord(op, arg, meta, raised, again) ==
    [op |-> op, arg |-> arg, meta |-> meta, raised |-> raised, again |-> again]

\* a setter call: r is what the setter does to jc
Call(op, val, r) ==
    /\ jc' = r.self
    /\ ret' = NoReturn
    /\ last' = CallRecord(op, val, EmptyDict, r.raised, FALSE)
    /\ UNCHANGED <<srch, net, res, trav>>

Set_correction(val) == Call("correction", val, correction(jc, val))
Set_date_range(val) == Call("date_range", val, date_range(jc, val))
Set_bbox(val) == Call("bbox", val, bbox(jc, val))
Set_collection(val) == Call("collection", val, collection(jc, val))
Set_scene_id(val) == Call("scene_id", val, scene_id(jc, val))
Set_sort_col(val) == Call("sort_col", val, sort_col(jc, val))
Set_sort_order(val) == Call("sort_order", val, sort_order(jc, val))
Set_platform(val) == Call("platform", val, platform(jc, val))
Set_cloud_cover_max(val) == Call("cloud_cover_max", val, cloud_cover_max(jc, val))
Set_cloud_cover_land_max(val) ==
    Call("cloud_cover_land_max", val, cloud_cover_land_max(jc, val))
Set_wrs_path(val) == Call("wrs_path", val, wrs_path(jc, val))
Set_wrs_row(val) == Call("wrs_row", val, wrs_row(jc, val))

SetMetadata(metadata) ==
    LET r == set_metadata(jc, metadata) IN
    /\ jc' = r.self
    /\ ret' = NoReturn
    /\ last' = CallRecord("set_metadata", PyNone, metadata, r.raised, FALSE)
    /\ UNCHANGED <<srch, net, res, trav>>

GenerateJson ==
    LET r == generate_json(jc) IN
    /\ jc' = r.self
    /\ ret' = r.ret
    /\ last' = CallRecord("generate_json", PyNone, EmptyDict, r.raised,
                          last.op = "generate_json")
    /\ UNCHANGED <<srch, net, res, trav>>

TypedSetters ==
    {"correction", "date_range", "bbox", "collection", "scene_id", "sort_col",
     "sort_order", "platform", "cloud_cover_max", "cloud_cover_land_max",
     "wrs_path", "wrs_row"}

-----------------------------------------------------------------------------
(* The values the calls are made with *)

CloudInputs == {PyInt(50), PyInt(100), PyInt(101), PyNone}
CloudLandInputs == {PyInt(50), PyInt(100), PyNone}
WrsInputs == {PyStr("5"), PyStr("999")}
CollectionInputs == {PyStr("landsat-c2l1"), PyStr("sentinel-2")}
PlatformInputs == {PyStr("LANDSAT_8"), PyStr("LANDSAT_7")}
SortOrderInputs == {PyStr("asc"), PyStr("up")}
SortColInputs == {PyStr("eo:cloud_cover")}
SceneIdInputs == {PyStr("LC91160502022132LGN00")}
CorrectionInputs == {PyStr("L1TP"), PyNone}
BboxInputs == {PyList(4, "pasig")}
DateRangeInputs == {PyStr("2021-01-01/2021-06-01")}
MetadataInputs ==
    {EmptyDict,
     "eo:cloud_cover" :> ("lt" :> PyInt(20)),
     "landsat:correction" :> ("eq" :> PyNone)}

NoSearch == [exists |-> FALSE]
NoNet == [requests |-> <<>>]
NoResult == [exists |-> FALSE]
NoTraversal == [begun |-> FALSE, items |-> <<>>, stopped |-> FALSE]

Init ==
    /\ jc = JsonConstructor(PyInt(DefaultLimit))
    /\ ret = NoReturn
    /\ last = CallRecord("__init__", PyNone, EmptyDict, NoError, FALSE)
    /\ srch = NoSearch
    /\ net = NoNet
    /\ res = NoResult
    /\ trav = NoTraversal

\* any sequence of calls on one JsonConstructor
Next ==
    \/ \E val \in CorrectionInputs : Set_correction(val)
    \/ \E val \in DateRangeInputs : Set_date_range(val)
    \/ \E val \in BboxInputs : Set_bbox(val)
    \/ \E val \in CollectionInputs : Set_collection(val)
    \/ \E val \in SceneIdInputs : Set_scene_id(val)
    \/ \E val \in SortColInputs : Set_sort_col(val)
    \/ \E val \in SortOrderInputs : Set_sort_order(val)
    \/ \E val \in PlatformInputs : Set_platform(val)
    \/ \E val \in CloudInputs : Set_cloud_cover_max(val)
    \/ \E val \in CloudLandInputs : Set_cloud_cover_land_max(val)
    \/ \E val \in WrsInputs : Set_wrs_path(val)
    \/ \E val \in WrsInputs : Set_wrs_row(val)
    \/ \E metadata \in MetadataInputs : SetMetadata(metadata)
    \/ GenerateJson

Spec == Init /\ [][Next]_vars

-----------------------------------------------------------------------------
(* One setter call on a freshly constructed JsonConstructor *)

CloudMargin == 2
MaxStrLen == 4

Fresh == last.op = "__init__"
FreshJc == JsonConstructor(PyInt(DefaultLimit))

CloudProbeInts == (CloudCoverMin - CloudMargin)..(CloudCoverTop + CloudMargin)

\* ints, the floats of the same numbers, a fraction, strings and None
CloudProbes ==
    {PyInt(k) : k \in CloudProbeInts}
        \cup {PyFloat(10 * k) : k \in CloudProbeInts}
        \cup {PyFloat(505), PyStr("50"), PyStr("100"), PyNone}

NextCloud ==
    \/ Fresh /\ \E val \in CloudProbes : Set_cloud_cover_max(val)
    \/ Fresh /\ \E val \in CloudProbes : Set_cloud_cover_land_max(val)
    \/ GenerateJson

SpecCloud == Init /\ [][NextCloud]_vars

WrsAlphabet == {"0", "2", "4", "5", "7", "8", "-"}

RECURSIVE StringsUpTo(_)
StringsUpTo(k) ==
    IF k = 0 THEN {""}
    ELSE LET S == StringsUpTo(k - 1) IN S \cup {x \o c : x \in S, c \in WrsAlphabet}

WrsProbes ==
    {PyStr(x) : x \in StringsUpTo(MaxStrLen)}
        \cup {PyNone, PyInt(5), PyInt(116), PyFloat(50)}

NextWrs ==
    \/ Fresh /\ \E val \in WrsProbes : Set_wrs_path(val)
    \/ Fresh /\ \E val \in WrsProbes : Set_wrs_row(val)
    \/ GenerateJson

SpecWrs == Init /\ [][NextWrs]_vars

-----------------------------------------------------------------------------
(* Properties of the JsonConstructor *)

Query(self) == generate_json(self).ret["query"]

\* C2: manual overrides always win: once a typed setter has stored a value
\* under a query key K, set_metadata with a mapping containing K completes and
\* the rendered query[K] is the manually supplied value.
C2_ManualOverridesWin ==
    last.op = "set_metadata" =>
        \A K \in DOMAIN last.meta \cap DOMAIN jc.params :
            /\ last.raised = NoError
            /\ K \in DOMAIN Query(jc)
            /\ Query(jc)[K] = last.meta[K]

\* C3: on a fresh builder, cloud_cover_max = v for an integer v in [0,100]
\* renders query['eo:cloud_cover'] = {'lt': v} when v < 100 and no such key
\* when v = 100; a non-integer or an integer outside [0,100] is rejected with
\* an error and nothing is stored.
C3_CloudCoverMax ==
    last.op = "cloud_cover_max" =>
        LET v == last.arg IN
        IF v.t = "int" /\ 0 <= v.n /\ v.n <= 100
        THEN /\ last.raised = NoError
             /\ IF v.n < 100
                THEN /\ "eo:cloud_cover" \in DOMAIN Query(jc)
                     /\ Query(jc)["eo:cloud_cover"] = ("lt" :> v)
                ELSE "eo:cloud_cover" \notin DOMAIN Query(jc)
        ELSE /\ last.raised # NoError
             /\ jc = FreshJc

IsDigits(x) == \A i \in 1..Len(x) : SubSeq(x, i, i) \in
                   {"0", "1", "2", "3", "4", "5", "6", "7", "8", "9"}

DigitValue(c) == CHOOSE d \in 0..9 : Digit(d) = c

RECURSIVE NatOfDigits(_)
NatOfDigits(x) ==
    IF Len(x) = 0 THEN 0
    ELSE 10 * NatOfDigits(SubSeq(x, 1, Len(x) - 1))
             + DigitValue(SubSeq(x, Len(x), Len(x)))

C6_RejectedSetterKeepsState ==
    [][(last'.op \in TypedSetters /\ last'.raised # NoError) =>
           jc' = jc]_vars

\* a platform rejected on a builder that holds an earlier valid platform
C6_Witness ==
    /\ last.op = "platform"
    /\ last.raised # NoError
    /\ "platform" \in DOMAIN jc.params
    /\ "landsat:wrs_path" \in DOMAIN jc.params

\* C9: rendering twice in a row returns two equal documents and leaves the
\* builder state as it was.
C9_RenderIdempotent ==
    [][(last'.op = "generate_json" /\ last'.raised = NoError) =>
           /\ jc' = jc
           /\ (last.op = "generate_json" => ret' = ret)]_vars

\* a second render in a row of a builder with a sort, a bbox and a filter
C9_Witness ==
    /\ last.op = "generate_json"
    /\ last.again
    /\ last.raised = NoError
    /\ {"sort", "bbox", "time"} \subseteq DOMAIN ret
    /\ "platform" \in DOMAIN ret["query"]

\* C10: cloud_cover_land_max follows the convention of cloud_cover_max: an
\* integer v in [0,100) renders query['landsat:cloud_cover_land'] = {'lt': v},
\* 100 emits no filter, and every integer outside [0,100] and every
\* non-integer is rejected with an error and not stored.
C10_CloudCoverLandMax ==
    last.op = "cloud_cover_land_max" =>
        LET v == last.arg IN
        IF v.t = "int" /\ 0 <= v.n /\ v.n <= 100
        THEN /\ last.raised = NoError
             /\ IF v.n < 100
                THEN /\ "landsat:cloud_cover_land" \in DOMAIN Query(jc)
                     /\ Query(jc)["landsat:cloud_cover_land"] = ("lt" :> v)
                ELSE "landsat:cloud_cover_land" \notin DOMAIN Query(jc)
        ELSE /\ last.raised # NoError
             /\ jc = FreshJc

\* a comparison object of one key holding None, such as {'eq': None}
HoldsNone(v) == Cardinality(DOMAIN v) = 1 /\ OnlyValue(v) = PyNone

CloudKey(op) ==
    IF op = "cloud_cover_max" THEN "eo:cloud_cover" ELSE "landsat:cloud_cover_land"

\* C12: assigning the sentinel 100 to cloud_cover_max or cloud_cover_land_max
\* completes and changes no attribute of the builder (neither the private
\* field nor params), so a limit {'lt': v} stored before under the setter's
\* key is still in the document rendered after.
C12_SentinelIsNoOp ==
    [][(last'.op \in {"cloud_cover_max", "cloud_cover_land_max"}
            /\ last'.arg = PyInt(NoFilter)) =>
           /\ last'.raised = NoError
           /\ jc' = jc
           /\ (CloudKey(last'.op) \in DOMAIN jc.params =>
                  /\ CloudKey(last'.op) \in DOMAIN Query(jc')
                  /\ Query(jc')[CloudKey(last'.op)] =
                         jc.params[CloudKey(last'.op)])]_vars

\* 100 assigned to cloud_cover_max on a builder holding the limit 50, which
\* the document still carries
C12_Witness ==
    /\ last.op = "cloud_cover_max"
    /\ last.arg = PyInt(NoFilter)
    /\ last.raised = NoError
    /\ jc._cloud_cover_max = ("eo:cloud_cover" :> PyInt(50))
    /\ "eo:cloud_cover" \in DOMAIN Query(jc)
    /\ Query(jc)["eo:cloud_cover"] = ("lt" :> PyInt(50))

-----------------------------------------------------------------------------
(* Search *)

StatusOK == 200

\* the defaults of Search.__init__
DefaultArgs ==
    [limit |-> PyInt(DefaultLimit),
     cloud_cover_max |-> PyInt(NoFilter),
     cloud_cover_land_max |-> PyInt(NoFilter),
     wrs_path |-> PyNone,
     wrs_row |-> PyNone,
     collection |-> PyStr("landsat-c2l1"),
     scene_id |-> PyNone,
     platform |-> PyNone,
     bbox |-> PyNone,
     date_range |-> PyNone,
     correction |-> PyStr("L1TP"),
     sort_col |-> PyNone,
     sort_order |-> PyNone]

\* one more setter call of __init__, unless an earlier one has raised or the
\* guard of this one is false
Step(r, guard, Setter(_)) ==
    IF r.raised # NoError \/ ~guard THEN r ELSE Setter(r.self)

\* the bbox branch of __init__: a path is read into the bounds of its first
\* geometry, a list is taken as it is, anything else is unsupported
BboxArg(self, val) ==
    IF val.t = "str" THEN bbox(self, PyList(4, val.s))
    ELSE IF val.t = "list" THEN bbox(self, val)
    ELSE Result(self, "ValueError")

\* Search.__init__(**args): the object, and the error raised if any (then no
\* object is returned)
Search(args) ==
    LET r0 == Result(JsonConstructor(args.limit), NoError)
        r1 == Step(r0, TRUE, LAMBDA h : sort_col(h, args.sort_col))
        r2 == Step(r1, TRUE, LAMBDA h : sort_order(h, args.sort_order))
        r3 == Step(r2, TRUE,
                   LAMBDA h : cloud_cover_land_max(h, args.cloud_cover_land_max))
        r4 == Step(r3, Truthy(args.cloud_cover_max),
                   LAMBDA h : cloud_cover_max(h, args.cloud_cover_max))
        r5 == Step(r4, Truthy(args.wrs_path), LAMBDA h : wrs_path(h, args.wrs_path))
        r6 == Step(r5, Truthy(args.wrs_row), LAMBDA h : wrs_row(h, args.wrs_row))
        r7 == Step(r6, Truthy(args.collection),
                   LAMBDA h : collection(h, args.collection))
        r8 == Step(r7, Truthy(args.platform), LAMBDA h : platform(h, args.platform))
        r9 == Step(r8, Truthy(args.scene_id), LAMBDA h : scene_id(h, args.scene_id))
        r10 == Step(r9, Truthy(args.correction),
                    LAMBDA h : correction(h, args.correction))
        r11 == Step(r10, Truthy(args.date_range),
                    LAMBDA h : date_range(h, args.date_range))
        r12 == Step(r11, Truthy(args.bbox), LAMBDA h : BboxArg(h, args.bbox))
    IN  [self |-> [exists |-> r12.raised = NoError,
                   args |-> args,
                   json_handler |-> r12.self,
                   response |-> PyNone],
         raised |-> r12.raised]

\* the body property
body(self) == generate_json(self.json_handler)

Exchange(requests, flag, r, code) ==
    [requests |-> requests, flag |-> flag, status |-> r.status,
     body |-> r.body, code |-> code]

\* search() assigning the response before it looks at the status
search_assigns_first(self, raise_error_if_failed, r) ==
    LET search_params == generate_json(self.json_handler) IN
    IF search_params.raised # NoError
    THEN [self |-> self, raised |-> search_params.raised, ret |-> NoReturn,
          net |-> Exchange(<<>>, raise_error_if_failed, r, 0)]
    ELSE IF r.status # StatusOK /\ raise_error_if_failed
         THEN [self |-> [self EXCEPT !.response = r.body],
               raised |-> "SearchError", ret |-> NoReturn,
               net |-> Exchange(<<search_params.ret>>, raise_error_if_failed,
                                r, r.status)]
         ELSE [self |-> [self EXCEPT !.response = r.body],
               raised |-> NoError, ret |-> <<PyInt(r.status), r.body>>,
               net |-> Exchange(<<search_params.ret>>, raise_error_if_failed,
                                r, 0)]

\* search(raise_error_if_failed), answered by the response r = (status, JSON
\* body): the object after the call, the error raised (a SearchError carries
\* the status in code), the returned pair, and the requests posted
search(self, raise_error_if_failed, r) ==
    LET search_params == generate_json(self.json_handler) IN
    IF search_params.raised # NoError
    THEN [self |-> self, raised |-> search_params.raised, ret |-> NoReturn,
          net |-> Exchange(<<>>, raise_error_if_failed, r, 0)]
    ELSE IF r.status # StatusOK /\ raise_error_if_failed
         THEN [self |-> self, raised |-> "SearchError", ret |-> NoReturn,
               net |-> Exchange(<<search_params.ret>>, raise_error_if_failed,
                                r, r.status)]
         ELSE [self |-> [self EXCEPT !.response = r.body],
               raised |-> NoError, ret |-> <<PyInt(r.status), r.body>>,
               net |-> Exchange(<<search_params.ret>>, raise_error_if_failed,
                                r, 0)]

SearchInit(args) ==
    LET r == Search(args) IN
    /\ srch' = r.self
    /\ last' = CallRecord("Search", PyNone, EmptyDict, r.raised, FALSE)
    /\ ret' = NoReturn
    /\ net' = NoNet
    /\ UNCHANGED <<jc, res, trav>>

SearchCall(raise_error_if_failed, r) ==
    LET out == search(srch, raise_error_if_failed, r) IN
    /\ srch' = out.self
    /\ last' = CallRecord("search", PyNone, EmptyDict, out.raised, FALSE)
    /\ ret' = out.ret
    /\ net' = out.net
    /\ UNCHANGED <<jc, res, trav>>

-----------------------------------------------------------------------------
(* Scene *)

\* _get_property(attribute): None for a property the feature lacks
_get_property(feature, attribute) ==
    IF attribute \in DOMAIN feature.properties
    THEN feature.properties[attribute]
    ELSE PyNone

\* 'sub' in x, for strings
Contains(sub, x) ==
    \E i \in 1..(Len(x) - Len(sub) + 1) : SubSeq(x, i, i + Len(sub) - 1) = sub

mtl_files == {"MTL.txt", "MTL.json", "MTL.xml", "ANG.txt"}
coeff_files == {"VAA", "VZA", "SAA", "SZA"}

\* the dict a loop over the assets in sel fills: d[Key(a)] = Val(a), a later
\* asset overwriting an earlier one of the same key
DictOf(sel, Key(_), Val(_)) ==
    [k \in {Key(sel[i]) : i \in 1..Len(sel)} |->
        Val(sel[CHOOSE i \in 1..Len(sel) :
                    /\ Key(sel[i]) = k
                    /\ \A j \in (i + 1)..Len(sel) : Key(sel[j]) # k])]

IsCoeff(a) == a.name \in coeff_files
IsMtl(a) == a.name \in mtl_files
IsQa(a) == Contains("qa_", a.name)
IsThumbnail(a) == a.name = "thumbnail"
HasBands(a) == "eo:bands" \in DOMAIN a.asset

AssetHref(a) == a.asset["href"]
AssetS3(a) == a.asset["alternate"]["s3"]["href"]
AssetTitle(a) == a.asset["title"]
AssetName(a) == a.name
AssetValue(a) == a.asset
BandData(a) == a.asset["eo:bands"][1]
BandNum(a) == BandData(a).name
BandCommonName(a) == BandData(a).common_name

\* load_assets(): the attributes it fills, from the assets in their order
load_assets(assets) ==
    LET coeff == SelectSeq(assets, IsCoeff)
        mtl == SelectSeq(assets, IsMtl)
        qa == SelectSeq(assets, IsQa)
        thumbs == SelectSeq(assets, IsThumbnail)
        bands == SelectSeq(assets, HasBands)
    IN  [coeff_list |-> [i \in 1..Len(coeff) |-> AssetValue(coeff[i])],
         coeff_names |-> DictOf(coeff, AssetName, AssetTitle),
         s3_coeff_paths |-> DictOf(coeff, AssetName, AssetS3),
         landsatlook_coeff_paths |-> DictOf(coeff, AssetName, AssetHref),
         s3_metadata_paths |-> DictOf(mtl, AssetName, AssetS3),
         landsatlook_metadata_paths |-> DictOf(mtl, AssetName, AssetHref),
         qa_list |-> [i \in 1..Len(qa) |-> AssetValue(qa[i])],
         qa_names |-> [i \in 1..Len(qa) |-> AssetTitle(qa[i])],
         landsatlook_qa_paths |-> DictOf(qa, AssetName, AssetHref),
         s3_qa_paths |-> DictOf(qa, AssetName, AssetS3),
         thumbnail |-> IF Len(thumbs) = 0 THEN PyNone
                       ELSE PyStr(AssetHref(thumbs[Len(thumbs)])),
         band_list |-> [i \in 1..Len(bands) |-> BandData(bands[i])],
         band_names |-> DictOf(bands, BandNum, BandCommonName),
         s3_tiff_paths |-> DictOf(bands, BandNum, AssetS3),
         landsatlook_tiff_paths |-> DictOf(bands, BandNum, AssetHref)]

\* Scene(feature): the attributes of the parsed scene
Scene(feature) ==
    [_feature |-> feature,
     description |-> feature.description,
     id |-> feature.id,
     bbox |-> feature.bbox,
     geometry |-> feature.geometry,
     timestamp |-> _get_property(feature, "datetime"),
     cloud_cover |-> _get_property(feature, "eo:cloud_cover"),
     sun_azimuth |-> _get_property(feature, "view:sun_azimuth"),
     sun_elevation |-> _get_property(feature, "view:sun_elevation"),
     platform |-> _get_property(feature, "platform"),
     instruments |-> _get_property(feature, "instruments"),
     off_nadir |-> _get_property(feature, "view:off_nadir"),
     cloud_cover_land |-> _get_property(feature, "landsat:cloud_cover_land"),
     wrs_type |-> _get_property(feature, "landsat:wrs_type"),
     wrs_row |-> _get_property(feature, "landsat:wrs_row"),
     wrs_path |-> _get_property(feature, "landsat:wrs_path"),
     scene_id |-> _get_property(feature, "landsat:scene_id"),
     collection_category |-> _get_property(feature, "landsat:collection_category"),
     collection_number |-> _get_property(feature, "landsat:collection_number"),
     correction |-> _get_property(feature, "landsat:correction"),
     epsg |-> _get_property(feature, "proj:epsg"),
     shape |-> _get_property(feature, "proj:shape"),
     assets |-> load_assets(feature.assets),
     metadata_txt_path |-> PyNone,
     metadata_xml_path |-> PyNone,
     metadata_json_path |-> PyNone]

-----------------------------------------------------------------------------
(* STACResult *)

\* the list comprehension [f(x) for x in self.features]
ListOf(features, Attr(_)) == [i \in 1..Len(features) |-> Attr(features[i])]

SceneId(x) == x.id
SceneSceneId(x) == x.scene_id
SceneCloudCover(x) == x.cloud_cover
SceneCloudCoverLand(x) == x.cloud_cover_land

Reverse(q) == [i \in 1..Len(q) |-> q[Len(q) + 1 - i]]

\* __init__(result) over the given features
STACResultOver(result, items) ==
    LET features == [i \in 1..Len(items) |-> Scene(items[i])] IN
    [exists |-> TRUE,
     result |-> result,
     features |-> features,
     _n |-> 0,
     meta |-> result.meta,
     ids |-> ListOf(features, SceneId),
     scene_ids |-> ListOf(features, SceneSceneId),
     cloud_cover |-> ListOf(features, SceneCloudCover),
     cloud_cover_land |-> ListOf(features, SceneCloudCoverLand)]

\* __init__(result) walking the features from the last to the first
STACResult_reversed(result) == STACResultOver(result, Reverse(result.features))

\* __init__(result)
STACResult(result) == STACResultOver(result, result.features)

\* __iter__(): the object after the call (it returns itself)
__iter__(self) == [self EXCEPT !._n = 0]

\* __next__(): the object after the call, the item returned or the error
__next__(self) ==
    IF self._n < Len(self.features)
    THEN IF self._n + 1 # Len(self.features)
         THEN \* features[self._n] after the increment, counted from 0
              [self |-> [self EXCEPT !._n = @ + 1],
               raised |-> NoError,
               ret |-> self.features[(self._n + 1) + 1]]
         ELSE [self |-> self, raised |-> "StopIteration", ret |-> NoReturn]
    ELSE [self |-> self, raised |-> "StopIteration", ret |-> NoReturn]

\* __getitem__(index) for an int index: the list's own indexing, which counts
\* a negative index from the end
__getitem__(self, index) ==
    LET n == Len(self.features) IN
    IF 0 <= index /\ index < n
    THEN [raised |-> NoError, ret |-> self.features[index + 1]]
    ELSE IF 0 - n <= index /\ index < 0
         THEN [raised |-> NoError, ret |-> self.features[n + index + 1]]
         ELSE [raised |-> "IndexError", ret |-> NoReturn]

\* __len__()
__len__(self) == PyInt(Len(self.features))

Construct(result) ==
    /\ ~res.exists
    /\ res' = STACResult(result)
    /\ last' = CallRecord("STACResult", PyNone, EmptyDict, NoError, FALSE)
    /\ ret' = NoReturn
    /\ UNCHANGED <<jc, srch, net, trav>>

\* iter(R): a traversal begins
Iter ==
    /\ res.exists
    /\ res' = __iter__(res)
    /\ trav' = [begun |-> TRUE, items |-> <<>>, stopped |-> FALSE]
    /\ last' = CallRecord("__iter__", PyNone, EmptyDict, NoError, FALSE)
    /\ ret' = NoReturn
    /\ UNCHANGED <<jc, srch, net>>

\* next(R): the traversal gets one more item, or ends
NextItem ==
    LET r == __next__(res) IN
    /\ res.exists
    /\ res' = r.self
    /\ trav' = IF r.raised = NoError
               THEN [trav EXCEPT !.items = Append(@, r.ret)]
               ELSE [trav EXCEPT !.stopped = TRUE]
    /\ last' = CallRecord("__next__", PyNone, EmptyDict, r.raised, FALSE)
    /\ ret' = r.ret
    /\ UNCHANGED <<jc, srch, net>>

GetItem(index) ==
    LET r == __getitem__(res, index) IN
    /\ res.exists
    /\ last' = CallRecord("__getitem__", PyInt(index), EmptyDict, r.raised, FALSE)
    /\ ret' = r.ret
    /\ UNCHANGED <<jc, srch, net, res, trav>>

LenCall ==
    /\ res.exists
    /\ last' = CallRecord("__len__", PyNone, EmptyDict, NoError, FALSE)
    /\ ret' = __len__(res)
    /\ UNCHANGED <<jc, srch, net, res, trav>>

-----------------------------------------------------------------------------
(* The responses of the search endpoint *)

MaxFeatures == 3
MaxArgsGiven == 2

Asset(name, title) ==
    [name |-> name,
     asset |-> [href |-> "https://landsatlook.usgs.gov/" \o name,
                title |-> title,
                alternate |-> [s3 |-> [href |-> "s3://usgs-landsat/" \o name]]]]

BandAsset(name, title, num, common) ==
    [name |-> name,
     asset |-> ("eo:bands" :> <<[name |-> num, common_name |-> common]>>)
                   @@ Asset(name, title).asset]

Feature(id, properties, assets) ==
    [id |-> id,
     description |-> "Landsat Collection 2 Level-1 Product",
     bbox |-> PyList(4, id),
     geometry |-> "Polygon",
     properties |-> properties,
     assets |-> assets]

FeaturePool ==
    {Feature("LC09_L1TP_116050_20220512",
             ("eo:cloud_cover" :> PyFloat(578))
                 @@ ("landsat:cloud_cover_land" :> PyFloat(601))
                 @@ ("landsat:scene_id" :> PyStr("LC91160502022132LGN00"))
                 @@ ("platform" :> PyStr("LANDSAT_9")),
             <<Asset("thumbnail", "Thumbnail image"),
               BandAsset("red", "Red Band (B4)", "B4", "red")>>),
     Feature("LC09_L1TP_116050_20220528",
             ("eo:cloud_cover" :> PyFloat(118))
                 @@ ("landsat:cloud_cover_land" :> PyFloat(95))
                 @@ ("landsat:scene_id" :> PyStr("LC91160502022148LGN00")),
             <<Asset("qa_pixel", "Pixel Quality Assessment Band"),
               Asset("MTL.txt", "Product Metadata File")>>),
     Feature("LC08_L1GT_116050_20210501",
             "eo:cloud_cover" :> PyFloat(1000),
             <<Asset("VAA", "Sensor Azimuth Angle Coefficient File")>>)}

RECURSIVE FeatureLists(_)
FeatureLists(k) ==
    IF k = 0 THEN {<<>>}
    ELSE LET S == FeatureLists(k - 1) IN
         S \cup {Append(q, f) : q \in S, f \in FeaturePool}

FeatureCollection(q) == [features |-> q, meta |-> [returned |-> Len(q)]]

Results == {FeatureCollection(q) : q \in FeatureLists(MaxFeatures)}

IndexProbes == (0 - MaxFeatures - 1)..(MaxFeatures + 1)

\* construction, traversals, indexing and len() of one STACResult
NextResult ==
    \/ \E result \in Results : Construct(result)
    \/ Iter
    \/ NextItem
    \/ \E index \in IndexProbes : GetItem(index)
    \/ LenCall

SpecResult == Init /\ [][NextResult]_vars

ErrorBody == [message |-> "Internal server error"]

Responses ==
    {[status |-> st, body |-> b] :
        st \in {StatusOK, 400, 502},
        b \in {ErrorBody, FeatureCollection(<<>>)}}

\* the values a caller gives for each named argument of Search
ArgChoices ==
    [limit |-> {PyInt(2)},
     cloud_cover_max |-> {PyInt(0), PyInt(12), PyInt(101)},
     cloud_cover_land_max |-> {PyInt(0), PyInt(30)},
     wrs_path |-> {PyStr("116"), PyStr("999"), PyStr("")},
     wrs_row |-> {PyStr("050"), PyStr("999")},
     collection |-> {PyStr("landsat-c1l1"), PyStr("sentinel-2")},
     scene_id |-> {PyStr("LC91160502022132LGN00")},
     platform |-> {PyStr("LANDSAT_8"), PyStr("LANDSAT_7")},
     bbox |-> {PyList(4, "pasig"), PyStr("aoi.geojson"), PyInt(7)},
     date_range |-> {PyStr("2021-01-01/2021-06-01")},
     correction |-> {PyStr("L2SP")},
     sort_col |-> {PyStr("eo:cloud_cover")},
     sort_order |-> {PyStr("asc"), PyStr("up")}]

\* the defaults with at most k named arguments given
RECURSIVE ArgsGiven(_)
ArgsGiven(k) ==
    IF k = 0 THEN {DefaultArgs}
    ELSE LET S == ArgsGiven(k - 1) IN
         S \cup UNION {{[a EXCEPT ![f] = v] : a \in S, v \in ArgChoices[f]} :
                          f \in DOMAIN ArgChoices}

SearchArgs == ArgsGiven(MaxArgsGiven)

\* one Search object: its construction, then any sequence of search() calls
NextSearch ==
    \/ Fresh /\ \E args \in SearchArgs : SearchInit(args)
    \/ srch.exists /\ \E flag \in BOOLEAN, r \in Responses : SearchCall(flag, r)

SpecSearch == Init /\ [][NextSearch]_vars

-----------------------------------------------------------------------------
(* Properties of Search and STACResult *)

IsPrefix(a, b) == Len(a) <= Len(b) /\ \A i \in 1..Len(a) : a[i] = b[i]

\* C1: every traversal begun with iter() yields features[0], features[1], ...,
\* features[n-1] in that order, exactly n Scene objects, and then stops.
C1_TraversalYieldsAll ==
    (res.exists /\ trav.begun) =>
        /\ IsPrefix(trav.items, res.features)
        /\ (trav.stopped => trav.items = res.features)

SourceOrderKept(r) ==
    LET src == r.result.features IN
    /\ Len(r.features) = Len(src)
    /\ Len(r.ids) = Len(src) /\ Len(r.scene_ids) = Len(src)
    /\ Len(r.cloud_cover) = Len(src) /\ Len(r.cloud_cover_land) = Len(src)
    /\ \A i \in 1..Len(src) :
          /\ r.features[i] = Scene(src[i])
          /\ r.ids[i] = src[i].id
          /\ r.scene_ids[i] = _get_property(src[i], "landsat:scene_id")
          /\ r.cloud_cover[i] = _get_property(src[i], "eo:cloud_cover")
          /\ r.cloud_cover_land[i] =
                 _get_property(src[i], "landsat:cloud_cover_land")

\* nothing of the sequence changes once it is constructed
SequenceFrozen(r, rNext) ==
    /\ rNext.result = r.result
    /\ rNext.features = r.features
    /\ rNext.ids = r.ids
    /\ rNext.scene_ids = r.scene_ids
    /\ rNext.cloud_cover = r.cloud_cover
    /\ rNext.cloud_cover_land = r.cloud_cover_land

LenIsFeatureCount(r, call, value) ==
    call.op = "__len__" => value = PyInt(Len(r.result.features))

\* R[i] for i in [0, n) is the scene of features[i]
IndexInBounds(r, call, value) ==
    LET n == Len(r.result.features)
        i == call.arg.n
    IN  (call.op = "__getitem__" /\ 0 <= i /\ i < n) =>
            (call.raised = NoError /\ value = Scene(r.result.features[i + 1]))

\* C7 as claimed: len(R) = n, R[i] and the aggregate lists follow the source
\* order, any index outside [0, n) fails with a bounds error, and nothing
\* changes after construction.
C7_AsClaimed ==
    [][res'.exists =>
           /\ SourceOrderKept(res')
           /\ (res.exists => SequenceFrozen(res, res'))
           /\ LenIsFeatureCount(res', last', ret')
           /\ IndexInBounds(res', last', ret')
           /\ LET n == Len(res'.result.features)
                  i == last'.arg.n
              IN  (last'.op = "__getitem__" /\ ~(0 <= i /\ i < n)) =>
                      last'.raised = "IndexError"]_vars

\* C7: len(R) = n, R[i] and the aggregate lists follow the source order, an
\* index i >= n or i < -n fails with a bounds error while -n <= i < 0 gives
\* the scene of features[n + i], and nothing changes after construction.
C7_SequenceOfScenes ==
    [][res'.exists =>
           /\ SourceOrderKept(res')
           /\ (res.exists => SequenceFrozen(res, res'))
           /\ LenIsFeatureCount(res', last', ret')
           /\ IndexInBounds(res', last', ret')
           /\ LET n == Len(res'.result.features)
                  i == last'.arg.n
              IN  /\ (last'.op = "__getitem__" /\ (i >= n \/ i < 0 - n)) =>
                         last'.raised = "IndexError"
                  /\ (last'.op = "__getitem__" /\ 0 - n <= i /\ i < 0) =>
                         /\ last'.raised = NoError
                         /\ ret' = Scene(res'.result.features[n + i + 1])]_vars

\* the last scene of a three-scene result read by index after a traversal
C7_Witness ==
    /\ res.exists
    /\ Len(res.features) = 3
    /\ res.cloud_cover = <<PyFloat(578), PyFloat(118), PyFloat(1000)>>
    /\ trav.stopped
    /\ last.op = "__getitem__"
    /\ last.arg = PyInt(2)
    /\ ret = res.features[3]

\* the builder a caller gets by assigning each given argument by its setter
Assigned(args) ==
    LET Given(v) == v # PyNone
        r0 == Result(JsonConstructor(args.limit), NoError)
        r1 == Step(r0, Given(args.sort_col), LAMBDA h : sort_col(h, args.sort_col))
        r2 == Step(r1, Given(args.sort_order),
                   LAMBDA h : sort_order(h, args.sort_order))
        r3 == Step(r2, Given(args.cloud_cover_land_max),
                   LAMBDA h : cloud_cover_land_max(h, args.cloud_cover_land_max))
        r4 == Step(r3, Given(args.cloud_cover_max),
                   LAMBDA h : cloud_cover_max(h, args.cloud_cover_max))
        r5 == Step(r4, Given(args.wrs_path), LAMBDA h : wrs_path(h, args.wrs_path))
        r6 == Step(r5, Given(args.wrs_row), LAMBDA h : wrs_row(h, args.wrs_row))
        r7 == Step(r6, Given(args.collection),
                   LAMBDA h : collection(h, args.collection))
        r8 == Step(r7, Given(args.platform), LAMBDA h : platform(h, args.platform))
        r9 == Step(r8, Given(args.scene_id), LAMBDA h : scene_id(h, args.scene_id))
        r10 == Step(r9, Given(args.correction),
                    LAMBDA h : correction(h, args.correction))
        r11 == Step(r10, Given(args.date_range),
                    LAMBDA h : date_range(h, args.date_range))
    IN  Step(r11, Given(args.bbox), LAMBDA h : BboxArg(h, args.bbox))

\* C8: the Search constructor applies each given filter value to its
\* JsonConstructor: Search(...).body is the document of a JsonConstructor on
\* which the same values were assigned through the setters (cloud_cover_max = 0
\* included), and a value a setter rejects makes the constructor raise that
\* error instead of returning an object.
C8_SearchAppliesFilters ==
    last.op = "Search" =>
        LET want == Assigned(srch.args) IN
        IF want.raised = NoError
        THEN /\ srch.exists
             /\ body(srch).ret = generate_json(want.self).ret
        ELSE /\ ~srch.exists
             /\ last.raised = want.raised

====
